---- MODULE Spec2Model ----
(***************************************************************************)
(* Sanctuary Signer (client/sanctuary-signer/src/lib.rs): a wallet that    *)
(* owns a Dilithium2 key pair, signs byte messages, verifies untrusted     *)
(* (public key, message, signature) triples, and a canonical encoding of   *)
(* transactions.                                                           *)
(*                                                                         *)
(* Representation.  A byte string (Vec<u8>, &[u8], [u8; N]) is a sequence  *)
(* of integers 0..255.  A String is the sequence of its Unicode scalar     *)
(* values; as_bytes is its UTF-8 encoding.  A u128 / u64 is the sequence   *)
(* of its base-65536 digits, most significant first (8 digits for u128, 4  *)
(* for u64), because the model checker's integers are 32 bits wide.        *)
(***************************************************************************)
EXTENDS Integers, Sequences, FiniteSets, TLC

VARIABLES wallets, held, ret, txA, txB, encA, encB

vars == <<wallets, held, ret, txA, txB, encA, encB>>

(***************************************************************************)
(* Protocol constants (lib.rs 16-21).                                      *)
(***************************************************************************)
DILITHIUM2_SIG_SIZE == 2420
DILITHIUM2_PK_SIZE == 1312
DILITHIUM2_SK_SIZE == 2560

\* Width in bytes of u128 and u64 (fields value and nonce, lib.rs 126, 130).
U128_BYTES == 16
U64_BYTES == 8

(***************************************************************************)
(* Bounds of the model.                                                    *)
(***************************************************************************)
\* Wallet objects alive at the same time.
NumWallets == 2
\* Longest to / data string (in characters) of the transactions that the
\* encoding specification enumerates.
MaxStrLen == 1

(***************************************************************************)
(* Bytes.                                                                  *)
(***************************************************************************)
Byte == 0..255

\* Bit k (0 = least significant) of byte a.
Bit(a, k) == (a \div (2 ^ k)) % 2

\* a ^ b on u8.
XorByte(a, b) ==
    LET x(k) == ((Bit(a, k) + Bit(b, k)) % 2) * (2 ^ k)
    IN  x(0) + x(1) + x(2) + x(3) + x(4) + x(5) + x(6) + x(7)

\* The u8 XOR table, computed once.
XorTable == [a \in Byte |-> [b \in Byte |-> XorByte(a, b)]]

\* u8::wrapping_add
wrapping_add(a, b) == (a + b) % 256

\* `i as u8`: truncation of a usize to its low 8 bits.
as_u8(i) == i % 256

(***************************************************************************)
(* String::as_bytes: the UTF-8 encoding of a sequence of scalar values.    *)
(***************************************************************************)
Utf8Char(c) ==
    IF c < 128 THEN <<c>>
    ELSE IF c < 2048 THEN <<192 + (c \div 64), 128 + (c % 64)>>
    ELSE IF c < 65536 THEN
        <<224 + (c \div 4096), 128 + ((c \div 64) % 64), 128 + (c % 64)>>
    ELSE <<240 + (c \div 262144), 128 + ((c \div 4096) % 64),
           128 + ((c \div 64) % 64), 128 + (c % 64)>>

RECURSIVE as_bytes(_)
as_bytes(s) ==
    IF s = <<>> THEN <<>> ELSE Utf8Char(Head(s)) \o as_bytes(Tail(s))

(***************************************************************************)
(* u128::to_be_bytes / u64::to_be_bytes on a number given by its           *)
(* base-65536 digits: the least significant digit yields the last two      *)
(* bytes (high byte first), and so on towards the front.                   *)
(***************************************************************************)
\* Mutant: to_le_bytes, the least significant byte first.
RECURSIVE to_le_bytes(_)
to_le_bytes(x) ==
    IF x = <<>> THEN <<>>
    ELSE LET n == Len(x)
             lo == x[n]
         IN  <<lo % 256, lo \div 256>> \o to_le_bytes(SubSeq(x, 1, n - 1))

RECURSIVE to_be_bytes(_)
to_be_bytes(x) ==
    IF x = <<>> THEN <<>>
    ELSE LET n == Len(x)
             lo == x[n]
         IN  to_be_bytes(SubSeq(x, 1, n - 1)) \o <<lo \div 256, lo % 256>>

(***************************************************************************)
(* SanctuaryTransaction::encode (lib.rs 135-142): the buffer starts empty  *)
(* and is extended four times.                                             *)
(***************************************************************************)
extend_from_slice(v, slice) == v \o slice

\* Mutant: the nonce is left out of the signed bytes.
encode_NoNonce(tx) ==
    LET e0 == <<>>
        e1 == extend_from_slice(e0, as_bytes(tx.to))
        e2 == extend_from_slice(e1, to_be_bytes(tx.value))
        e3 == extend_from_slice(e2, as_bytes(tx.data))
    IN  e3

\* Mutant: the target address is left out of the signed bytes.
encode_NoTo(tx) ==
    LET e0 == <<>>
        e2 == extend_from_slice(e0, to_be_bytes(tx.value))
        e3 == extend_from_slice(e2, as_bytes(tx.data))
        e4 == extend_from_slice(e3, to_be_bytes(tx.nonce))
    IN  e4

encode(tx) ==
    LET e0 == <<>>
        e1 == extend_from_slice(e0, as_bytes(tx.to))
        e2 == extend_from_slice(e1, to_be_bytes(tx.value))
        e3 == extend_from_slice(e2, as_bytes(tx.data))
        e4 == extend_from_slice(e3, to_be_bytes(tx.nonce))
    IN  e4

(***************************************************************************)
(* hex::encode: two lowercase hexadecimal digits per byte.                 *)
(***************************************************************************)
HexDigit(n) == IF n < 10 THEN 48 + n ELSE 87 + n

hex_encode(bytes) ==
    [i \in 1..(2 * Len(bytes)) |->
        IF i % 2 = 1 THEN HexDigit(bytes[(i + 1) \div 2] \div 16)
        ELSE HexDigit(bytes[i \div 2] % 16)]

(***************************************************************************)
(* The signature primitive (pqcrypto_dilithium::dilithium2, imported at    *)
(* lib.rs 6-13), as an ideal signature scheme.  keypair() draws a key      *)
(* seed; the key bytes of a seed and the signature bytes of a (seed,       *)
(* message, signing randomness) triple are fixed tables of byte strings    *)
(* of the scheme's sizes, all distinct.  A signature is valid for a        *)
(* message under a public key exactly when it is an entry of the table for *)
(* that key and that message.                                              *)
(***************************************************************************)
\* Outcomes of keypair(): one seed for each wallet that can be alive.
KeySeeds == 1..NumWallets

\* Outcomes of the signer's internal randomness: signing is deterministic
\* (a fixed key gives byte-identical signatures for equal messages).
Rands == {0}

PkBytes(k) ==
    [i \in 1..DILITHIUM2_PK_SIZE |->
        IF i = 1 THEN k ELSE (97 * k + 31 * i + (i \div 32)) % 256]

SkBytes(k) ==
    [i \in 1..DILITHIUM2_SK_SIZE |->
        IF i = 1 THEN k ELSE (53 * k + 17 * i + 5) % 256]

PkTable == [k \in KeySeeds |-> PkBytes(k)]
SkTable == [k \in KeySeeds |-> SkBytes(k)]

(***************************************************************************)
(* The messages callers sign and verify: the two messages of the tests     *)
(* (lib.rs 163, 210) and the encodings of the transaction of the           *)
(* end-to-end test (lib.rs 234-239) under several nonces.                  *)
(***************************************************************************)
MsgAlice ==
    <<84, 114, 97, 110, 115, 102, 101, 114, 32, 49, 48, 48, 32, 69, 84, 72,
      32, 116, 111, 32, 65, 108, 105, 99, 101>>
MsgBob ==
    <<84, 114, 97, 110, 115, 102, 101, 114, 32, 49, 48, 48, 32, 69, 84, 72,
      32, 116, 111, 32, 66, 111, 98>>

\* "0x742d35Cc6634C0532925a3b844Bc9e7595f8b2E1"
FlowTo ==
    <<48, 120, 55, 52, 50, 100, 51, 53, 67, 99, 54, 54, 51, 52, 67, 48, 53,
      51, 50, 57, 50, 53, 97, 51, 98, 56, 52, 52, 66, 99, 57, 101, 55, 53,
      57, 53, 102, 56, 98, 50, 69, 49>>
\* 1_000_000_000_000_000_000 = 0x0DE0_B6B3_A764_0000
FlowValue == <<0, 0, 0, 0, 3552, 46771, 42852, 0>>
\* "0x"
FlowData == <<48, 120>>

\* Nonces 1 and 2.
FlowNonceSeq == <<<<0, 0, 0, 1>>, <<0, 0, 0, 2>>>>

FlowTx(n) == [to |-> FlowTo, value |-> FlowValue, data |-> FlowData, nonce |-> n]

FlowTxs == {FlowTx(FlowNonceSeq[i]) : i \in DOMAIN FlowNonceSeq}

MessageSeq ==
    <<MsgAlice, MsgBob, encode(FlowTx(FlowNonceSeq[1])),
      encode(FlowTx(FlowNonceSeq[2]))>>

Messages == {MessageSeq[i] : i \in DOMAIN MessageSeq}

MsgIndex(m) == CHOOSE i \in DOMAIN MessageSeq : MessageSeq[i] = m

SigBytes(k, mi, r) ==
    [i \in 1..DILITHIUM2_SIG_SIZE |->
        IF i = 1 THEN k
        ELSE IF i = 2 THEN mi
        ELSE IF i = 3 THEN r
        ELSE (7 * i + 13 * k + 29 * mi + 101 * r) % 256]

SigTable ==
    [k \in KeySeeds |-> [mi \in DOMAIN MessageSeq |-> [r \in Rands |->
        SigBytes(k, mi, r)]]]

\* keypair(): the pair of seed k.
keypair(k) == [pk |-> PkTable[k], sk |-> SkTable[k]]

\* detached_sign(message, &sk) with signing randomness r.
detached_sign(message, sk, r) ==
    LET k == CHOOSE k \in KeySeeds : SkTable[k] = sk
    IN  SigTable[k][MsgIndex(message)][r]

\* verify_detached_signature(&sig, message, &pk) is Ok(())
verify_detached_signature(sig, message, pk) ==
    \E k \in KeySeeds, r \in Rands :
        /\ pk = PkTable[k]
        /\ message \in Messages
        /\ sig = SigTable[k][MsgIndex(message)][r]

(***************************************************************************)
(* from_bytes of the primitive's key and signature types.  Bytes of the    *)
(* wrong length never parse, bytes the primitive produced always parse;    *)
(* for any other bytes of the right length the outcome belongs to the      *)
(* primitive and both outcomes are allowed.  TRUE stands for Ok.           *)
(***************************************************************************)
SecretKey_from_bytes(bytes) ==
    IF Len(bytes) # DILITHIUM2_SK_SIZE THEN {FALSE}
    ELSE IF \E k \in KeySeeds : SkTable[k] = bytes THEN {TRUE}
    ELSE {TRUE, FALSE}

PublicKey_from_bytes(bytes) ==
    IF Len(bytes) # DILITHIUM2_PK_SIZE THEN {FALSE}
    ELSE IF \E k \in KeySeeds : PkTable[k] = bytes THEN {TRUE}
    ELSE {TRUE, FALSE}

DetachedSignature_from_bytes(bytes) ==
    IF Len(bytes) # DILITHIUM2_SIG_SIZE THEN {FALSE}
    ELSE IF \E k \in KeySeeds, mi \in DOMAIN MessageSeq, r \in Rands :
                SigTable[k][mi][r] = bytes THEN {TRUE}
    ELSE {TRUE, FALSE}

(***************************************************************************)
(* Result<_, SanctuaryError> (lib.rs 25-31).                               *)
(***************************************************************************)
SanctuaryError ==
    {"InvalidPublicKeySize", "InvalidSecretKeySize", "InvalidSignatureSize",
     "SignatureVerificationFailed", "KeyDeserializationFailed"}

OkBool(b) == [tag |-> "Ok", err |-> "", bool |-> b, bytes |-> <<>>]
OkBytes(v) == [tag |-> "Ok", err |-> "", bool |-> FALSE, bytes |-> v]
Err(e) == [tag |-> "Err", err |-> e, bool |-> FALSE, bytes |-> <<>>]

(***************************************************************************)
(* SanctuaryWallet (lib.rs 35-112).  A wallet is the record of its two     *)
(* byte vectors.                                                           *)
(***************************************************************************)
\* SanctuaryWallet::new (lib.rs 42-48) when keypair() yields the pair of seed k.
new(k) ==
    LET kp == keypair(k)
    IN  [pk |-> kp.pk, sk |-> kp.sk]

\* public_key (lib.rs 51-53)
public_key(self) == self.pk

\* public_key_hex (lib.rs 56-58)
public_key_hex(self) == hex_encode(self.pk)

\* public_key_hash (lib.rs 61-73): the outer loop from chunk i on, with the
\* accumulator hash; chunk i is pk[32 i .. min(32 i + 32, len)].
RECURSIVE HashChunks(_, _, _)
HashChunks(pk, i, hash) ==
    IF 32 * i >= Len(pk) THEN hash
    ELSE HashChunks(pk, i + 1,
            [j \in 1..32 |->
                IF 32 * i + j <= Len(pk) /\ j - 1 < 32
                THEN XorTable[hash[j]][wrapping_add(pk[32 * i + j], as_u8(i))]
                ELSE hash[j]])

\* Mutant: the chunk index is not added to the byte.
RECURSIVE HashChunksPlain(_, _, _)
HashChunksPlain(pk, i, hash) ==
    IF 32 * i >= Len(pk) THEN hash
    ELSE HashChunksPlain(pk, i + 1,
            [j \in 1..32 |->
                IF 32 * i + j <= Len(pk) /\ j - 1 < 32
                THEN XorTable[hash[j]][pk[32 * i + j]]
                ELSE hash[j]])

public_key_hash_Plain(self) == HashChunksPlain(self.pk, 0, [j \in 1..32 |-> 0])

public_key_hash(self) == HashChunks(self.pk, 0, [j \in 1..32 |-> 0])

\* sign_transaction (lib.rs 77-84); skParses is the outcome of
\* SecretKey::from_bytes, r the signing randomness.
sign_transaction(self, message, skParses, r) ==
    IF ~skParses THEN Err("KeyDeserializationFailed")
    ELSE OkBytes(detached_sign(message, self.sk, r))

\* Mutant: the signature length is compared with the public key size.
verify_transaction_SigVsPkSize(pk_bytes, message, signature_bytes, pkParses, sigParses) ==
    IF Len(pk_bytes) # DILITHIUM2_PK_SIZE
    THEN [result |-> Err("InvalidPublicKeySize"), calls |-> <<>>]
    ELSE IF Len(signature_bytes) # DILITHIUM2_PK_SIZE
    THEN [result |-> Err("InvalidSignatureSize"), calls |-> <<>>]
    ELSE IF ~pkParses
    THEN [result |-> Err("KeyDeserializationFailed"),
          calls |-> <<"PublicKey::from_bytes">>]
    ELSE IF ~sigParses
    THEN [result |-> Err("KeyDeserializationFailed"),
          calls |-> <<"PublicKey::from_bytes", "DetachedSignature::from_bytes">>]
    ELSE [result |-> OkBool(verify_detached_signature(signature_bytes, message, pk_bytes)),
          calls |-> <<"PublicKey::from_bytes", "DetachedSignature::from_bytes",
                      "verify_detached_signature">>]

\* Mutant: the signature size is checked before the public key size.
verify_transaction_SigFirst(pk_bytes, message, signature_bytes, pkParses, sigParses) ==
    IF Len(signature_bytes) # DILITHIUM2_SIG_SIZE
    THEN [result |-> Err("InvalidSignatureSize"), calls |-> <<>>]
    ELSE IF Len(pk_bytes) # DILITHIUM2_PK_SIZE
    THEN [result |-> Err("InvalidPublicKeySize"), calls |-> <<>>]
    ELSE IF ~pkParses
    THEN [result |-> Err("KeyDeserializationFailed"),
          calls |-> <<"PublicKey::from_bytes">>]
    ELSE IF ~sigParses
    THEN [result |-> Err("KeyDeserializationFailed"),
          calls |-> <<"PublicKey::from_bytes", "DetachedSignature::from_bytes">>]
    ELSE [result |-> OkBool(verify_detached_signature(signature_bytes, message, pk_bytes)),
          calls |-> <<"PublicKey::from_bytes", "DetachedSignature::from_bytes",
                      "verify_detached_signature">>]

\* Mutant: only a signature that is too long is rejected by the size check.
verify_transaction_SigTooLongOnly(pk_bytes, message, signature_bytes, pkParses, sigParses) ==
    IF Len(pk_bytes) # DILITHIUM2_PK_SIZE
    THEN [result |-> Err("InvalidPublicKeySize"), calls |-> <<>>]
    ELSE IF Len(signature_bytes) > DILITHIUM2_SIG_SIZE
    THEN [result |-> Err("InvalidSignatureSize"), calls |-> <<>>]
    ELSE IF ~pkParses
    THEN [result |-> Err("KeyDeserializationFailed"),
          calls |-> <<"PublicKey::from_bytes">>]
    ELSE IF ~sigParses
    THEN [result |-> Err("KeyDeserializationFailed"),
          calls |-> <<"PublicKey::from_bytes", "DetachedSignature::from_bytes">>]
    ELSE [result |-> OkBool(verify_detached_signature(signature_bytes, message, pk_bytes)),
          calls |-> <<"PublicKey::from_bytes", "DetachedSignature::from_bytes",
                      "verify_detached_signature">>]

\* Mutant: a signature the primitive rejects is reported as an error.
verify_transaction_ErrOnReject(pk_bytes, message, signature_bytes, pkParses, sigParses) ==
    IF Len(pk_bytes) # DILITHIUM2_PK_SIZE
    THEN [result |-> Err("InvalidPublicKeySize"), calls |-> <<>>]
    ELSE IF Len(signature_bytes) # DILITHIUM2_SIG_SIZE
    THEN [result |-> Err("InvalidSignatureSize"), calls |-> <<>>]
    ELSE IF ~pkParses
    THEN [result |-> Err("KeyDeserializationFailed"),
          calls |-> <<"PublicKey::from_bytes">>]
    ELSE IF ~sigParses
    THEN [result |-> Err("KeyDeserializationFailed"),
          calls |-> <<"PublicKey::from_bytes", "DetachedSignature::from_bytes">>]
    ELSE [result |-> IF verify_detached_signature(signature_bytes, message, pk_bytes)
                     THEN OkBool(TRUE)
                     ELSE Err("SignatureVerificationFailed"),
          calls |-> <<"PublicKey::from_bytes", "DetachedSignature::from_bytes",
                      "verify_detached_signature">>]

\* Mutant: both arms of the final match yield Ok(true).
verify_transaction_AcceptAll(pk_bytes, message, signature_bytes, pkParses, sigParses) ==
    IF Len(pk_bytes) # DILITHIUM2_PK_SIZE
    THEN [result |-> Err("InvalidPublicKeySize"), calls |-> <<>>]
    ELSE IF Len(signature_bytes) # DILITHIUM2_SIG_SIZE
    THEN [result |-> Err("InvalidSignatureSize"), calls |-> <<>>]
    ELSE IF ~pkParses
    THEN [result |-> Err("KeyDeserializationFailed"),
          calls |-> <<"PublicKey::from_bytes">>]
    ELSE IF ~sigParses
    THEN [result |-> Err("KeyDeserializationFailed"),
          calls |-> <<"PublicKey::from_bytes", "DetachedSignature::from_bytes">>]
    ELSE [result |-> OkBool(TRUE),
          calls |-> <<"PublicKey::from_bytes", "DetachedSignature::from_bytes",
                      "verify_detached_signature">>]

\* verify_transaction (lib.rs 87-111); pkParses and sigParses are the outcomes
\* of the two from_bytes calls, consulted only if the call is made.  calls
\* lists the calls to the primitive in the order they are made.
verify_transaction(pk_bytes, message, signature_bytes, pkParses, sigParses) ==
    IF Len(pk_bytes) # DILITHIUM2_PK_SIZE
    THEN [result |-> Err("InvalidPublicKeySize"), calls |-> <<>>]
    ELSE IF Len(signature_bytes) # DILITHIUM2_SIG_SIZE
    THEN [result |-> Err("InvalidSignatureSize"), calls |-> <<>>]
    ELSE IF ~pkParses
    THEN [result |-> Err("KeyDeserializationFailed"),
          calls |-> <<"PublicKey::from_bytes">>]
    ELSE IF ~sigParses
    THEN [result |-> Err("KeyDeserializationFailed"),
          calls |-> <<"PublicKey::from_bytes", "DetachedSignature::from_bytes">>]
    ELSE [result |-> OkBool(verify_detached_signature(signature_bytes, message, pk_bytes)),
          calls |-> <<"PublicKey::from_bytes", "DetachedSignature::from_bytes",
                      "verify_detached_signature">>]

(***************************************************************************)
(* The state.                                                              *)
(*   wallets  the live wallets: a function from wallet ids to wallets      *)
(*   held     <<>> or <<h>>: the signature the caller last obtained from   *)
(*            sign_transaction, with its signer's public key and message   *)
(*   ret      <<>> while no call is pending, else <<c>>: the call that     *)
(*            just returned, with its arguments and its result             *)
(*   txA, txB, encA, encB   two transactions and their encodings           *)
(***************************************************************************)
WalletIds == 1..NumWallets

\* parsed is <<pkParses, sigParses>> for verify_transaction, else <<>>.
Call(op, w, pk, msg, sig, parsed, result, calls) ==
    [op |-> op, wallet |-> w, pk |-> pk, msg |-> msg, sig |-> sig,
     parsed |-> parsed, result |-> result, calls |-> calls]

NoTx == [to |-> <<>>, value |-> <<>>, data |-> <<>>, nonce |-> <<>>]

Ready == ret = <<>>

TxIdle == UNCHANGED <<txA, txB, encA, encB>>

\* let w = SanctuaryWallet::new();
New(w, k) ==
    /\ Ready
    /\ w \notin DOMAIN wallets
    /\ \A v \in DOMAIN wallets : wallets[v].pk # PkTable[k]
    /\ wallets' = [v \in DOMAIN wallets \cup {w} |->
                     IF v = w THEN new(k) ELSE wallets[v]]
    /\ ret' = <<Call("new", w, <<>>, <<>>, <<>>, <<>>, OkBytes(<<>>), <<>>)>>
    /\ UNCHANGED held
    /\ TxIdle

\* let w2 = w.clone();   (derive(Clone), lib.rs 34): a new wallet with
\* copies of both byte vectors.
Clone(w, w2) ==
    /\ Ready
    /\ w \in DOMAIN wallets
    /\ w2 \notin DOMAIN wallets
    /\ wallets' = [v \in DOMAIN wallets \cup {w2} |->
                     IF v = w2 THEN [pk |-> wallets[w].pk, sk |-> wallets[w].sk]
                     ELSE wallets[v]]
    /\ ret' = <<Call("clone", w2, <<>>, <<>>, <<>>, <<>>, OkBytes(<<>>), <<>>)>>
    /\ UNCHANGED held
    /\ TxIdle

\* Wallet w goes out of scope and is dropped (there is no Drop impl: its
\* two vectors are freed, nothing else happens).
Drop(w) ==
    /\ Ready
    /\ w \in DOMAIN wallets
    /\ wallets' = [v \in DOMAIN wallets \ {w} |-> wallets[v]]
    /\ UNCHANGED <<held, ret>>
    /\ TxIdle

PublicKey(w) ==
    /\ Ready
    /\ w \in DOMAIN wallets
    /\ ret' = <<Call("public_key", w, <<>>, <<>>, <<>>, <<>>,
                     OkBytes(public_key(wallets[w])), <<>>)>>
    /\ UNCHANGED <<wallets, held>>
    /\ TxIdle

PublicKeyHex(w) ==
    /\ Ready
    /\ w \in DOMAIN wallets
    /\ ret' = <<Call("public_key_hex", w, <<>>, <<>>, <<>>, <<>>,
                     OkBytes(public_key_hex(wallets[w])), <<>>)>>
    /\ UNCHANGED <<wallets, held>>
    /\ TxIdle

PublicKeyHash(w) ==
    /\ Ready
    /\ w \in DOMAIN wallets
    /\ ret' = <<Call("public_key_hash", w, <<>>, <<>>, <<>>, <<>>,
                     OkBytes(public_key_hash(wallets[w])), <<>>)>>
    /\ UNCHANGED <<wallets, held>>
    /\ TxIdle

\* Mutant: the stored secret key is wiped once it has been used.
SignTransaction_Zeroize(w, message, r) ==
    /\ Ready
    /\ w \in DOMAIN wallets
    /\ \E skParses \in SecretKey_from_bytes(wallets[w].sk) :
         LET res == sign_transaction(wallets[w], message, skParses, r)
         IN  /\ ret' = <<Call("sign_transaction", w, <<>>, message, <<>>,
                              <<>>, res, <<>>)>>
             /\ held' = IF res.tag = "Ok"
                        THEN <<[pk |-> public_key(wallets[w]), msg |-> message,
                                sig |-> res.bytes]>>
                        ELSE held
    /\ wallets' = [wallets EXCEPT ![w].sk = [i \in 1..DILITHIUM2_SK_SIZE |-> 0]]
    /\ TxIdle

SignTransaction(w, message, r) ==
    /\ Ready
    /\ w \in DOMAIN wallets
    /\ \E skParses \in SecretKey_from_bytes(wallets[w].sk) :
         LET res == sign_transaction(wallets[w], message, skParses, r)
         IN  /\ ret' = <<Call("sign_transaction", w, <<>>, message, <<>>,
                              <<>>, res, <<>>)>>
             /\ held' = IF res.tag = "Ok"
                        THEN <<[pk |-> public_key(wallets[w]), msg |-> message,
                                sig |-> res.bytes]>>
                        ELSE held
    /\ UNCHANGED wallets
    /\ TxIdle

(***************************************************************************)
(* The untrusted inputs of verify_transaction.                             *)
(***************************************************************************)
\* signature[at] ^= 0xFF   (lib.rs 194), at counted from 1
Corrupt(sig, at) == [sig EXCEPT ![at] = XorTable[sig[at]][255]]

\* Byte offsets (from 1) at which a held signature is corrupted.
CorruptAt == {1}

MalformedPks ==
    {SubSeq(PkTable[1], 1, 100),
     PkTable[1] \o <<0>>,
     [i \in 1..DILITHIUM2_PK_SIZE |-> 255]}

MalformedSigs ==
    {SubSeq(SigTable[1][1][0], 1, DILITHIUM2_SIG_SIZE - 1),
     SigTable[1][1][0] \o <<0>>}

PkInputs == {wallets[w].pk : w \in DOMAIN wallets} \cup MalformedPks

SigInputs ==
    {held[i].sig : i \in DOMAIN held}
        \cup {Corrupt(held[i].sig, at) : i \in DOMAIN held, at \in CorruptAt}
        \cup MalformedSigs

VerifyTransaction(pk_bytes, message, signature_bytes) ==
    /\ Ready
    /\ \E pkParses \in PublicKey_from_bytes(pk_bytes),
          sigParses \in DetachedSignature_from_bytes(signature_bytes) :
         LET v == verify_transaction(pk_bytes, message, signature_bytes,
                                     pkParses, sigParses)
         IN  ret' = <<Call("verify_transaction", 0, pk_bytes, message,
                           signature_bytes, <<pkParses, sigParses>>,
                           v.result, v.calls)>>
    /\ UNCHANGED <<wallets, held>>
    /\ TxIdle

\* The caller is done with the returned value.
Continue ==
    /\ ~Ready
    /\ ret' = <<>>
    /\ UNCHANGED <<wallets, held>>
    /\ TxIdle

Init ==
    /\ wallets = <<>>
    /\ held = <<>>
    /\ ret = <<>>
    /\ txA = NoTx
    /\ txB = NoTx
    /\ encA = <<>>
    /\ encB = <<>>

Next ==
    \/ \E w \in WalletIds, k \in KeySeeds : New(w, k)
    \/ \E w \in WalletIds, w2 \in WalletIds : Clone(w, w2)
    \/ \E w \in WalletIds : Drop(w)
    \/ \E w \in WalletIds : PublicKey(w)
    \/ \E w \in WalletIds : PublicKeyHex(w)
    \/ \E w \in WalletIds : PublicKeyHash(w)
    \/ \E w \in WalletIds, m \in Messages, r \in Rands : SignTransaction(w, m, r)
    \/ \E p \in PkInputs, m \in Messages, s \in SigInputs :
            VerifyTransaction(p, m, s)
    \/ Continue

Spec == Init /\ [][Next]_vars

(***************************************************************************)
(* The encoding on its own: two transactions drawn from a bounded set,     *)
(* each encoded once.                                                      *)
(***************************************************************************)
\* '0' and '1' (one byte each in UTF-8) and U+00E9 (two bytes).
Chars == {48, 49, 233}

RECURSIVE StringsOfLen(_)
StringsOfLen(n) ==
    IF n = 0 THEN {<<>>}
    ELSE {<<c>> \o s : c \in Chars, s \in StringsOfLen(n - 1)}

Strings == UNION {StringsOfLen(n) : n \in 0..MaxStrLen}

\* 0, 10^18 and the u128 whose sixteen bytes are all 0x30 ('0').
U128Values ==
    {<<0, 0, 0, 0, 0, 0, 0, 0>>, FlowValue,
     <<12336, 12336, 12336, 12336, 12336, 12336, 12336, 12336>>}

U64Values == {<<0, 0, 0, 1>>, <<0, 0, 0, 2>>}

Txs == [to : Strings, value : U128Values, data : Strings, nonce : U64Values]

EncodeA ==
    /\ encA = <<>>
    /\ encA' = encode(txA)
    /\ UNCHANGED <<wallets, held, ret, txA, txB, encB>>

EncodeB ==
    /\ encB = <<>>
    /\ encB' = encode(txB)
    /\ UNCHANGED <<wallets, held, ret, txA, txB, encA>>

EncInit ==
    /\ wallets = <<>>
    /\ held = <<>>
    /\ ret = <<>>
    /\ txA \in Txs
    /\ txB \in Txs
    /\ encA = <<>>
    /\ encB = <<>>

EncNext == EncodeA \/ EncodeB

SpecEncode == EncInit /\ [][EncNext]_vars

(***************************************************************************)
(* Properties.                                                             *)
(***************************************************************************)
Returned(op) == ret # <<>> /\ ret[1].op = op

\* The call that just returned is verify_transaction on the public key of
\* the signer of the held signature.
VerifiedUnderSigner ==
    /\ Returned("verify_transaction")
    /\ held # <<>>
    /\ ret[1].pk = held[1].pk

\* C1: sign/verify round trip.  Every sign_transaction call returns Ok(s)
\* with s of exactly 2420 bytes, every wallet's public key has exactly 1312
\* bytes, and verify_transaction on the signer's public key, the signed
\* message and s returns Ok(true).
C1_RoundTrip ==
    /\ \A w \in DOMAIN wallets :
            Len(public_key(wallets[w])) = DILITHIUM2_PK_SIZE
    /\ Returned("sign_transaction") =>
            /\ ret[1].result.tag = "Ok"
            /\ Len(ret[1].result.bytes) = DILITHIUM2_SIG_SIZE
    /\ (VerifiedUnderSigner /\ ret[1].msg = held[1].msg
            /\ ret[1].sig = held[1].sig) =>
            ret[1].result = OkBool(TRUE)

C1_Witness ==
    /\ VerifiedUnderSigner
    /\ ret[1].msg = held[1].msg
    /\ ret[1].sig = held[1].sig
    /\ ret[1].result = OkBool(TRUE)

\* C2: a verify_transaction call whose public key is not 1312 bytes long
\* returns Err(InvalidPublicKeySize), whatever the message and the signature
\* (also one of a wrong length), and makes no call to the primitive: no
\* parse, no verify.
C2_PkSizeFirst ==
    (Returned("verify_transaction") /\ Len(ret[1].pk) # DILITHIUM2_PK_SIZE) =>
        /\ ret[1].result = Err("InvalidPublicKeySize")
        /\ ret[1].calls = <<>>

C2_Witness ==
    /\ Returned("verify_transaction")
    /\ Len(ret[1].pk) = 100
    /\ Len(ret[1].sig) # DILITHIUM2_SIG_SIZE
    /\ ret[1].result = Err("InvalidPublicKeySize")

\* C3: a verify_transaction call whose public key is 1312 bytes long and
\* whose signature is not 2420 bytes long returns Err(InvalidSignatureSize)
\* and makes no call to the primitive; no other call of any operation
\* returns InvalidSignatureSize.
C3_SigSize ==
    /\ (Returned("verify_transaction")
            /\ Len(ret[1].pk) = DILITHIUM2_PK_SIZE
            /\ Len(ret[1].sig) # DILITHIUM2_SIG_SIZE) =>
            /\ ret[1].result = Err("InvalidSignatureSize")
            /\ ret[1].calls = <<>>
    /\ (ret # <<>> /\ ret[1].result = Err("InvalidSignatureSize")) =>
            /\ ret[1].op = "verify_transaction"
            /\ Len(ret[1].pk) = DILITHIUM2_PK_SIZE
            /\ Len(ret[1].sig) # DILITHIUM2_SIG_SIZE

C3_Witness ==
    /\ Returned("verify_transaction")
    /\ Len(ret[1].pk) = DILITHIUM2_PK_SIZE
    /\ Len(ret[1].sig) = DILITHIUM2_SIG_SIZE - 1
    /\ ret[1].result = Err("InvalidSignatureSize")

\* C4: when the public key has 1312 bytes, the signature 2420 bytes and both
\* parse, verify_transaction returns Ok(b), b being the primitive's verdict,
\* never Err; a held signature with one byte corrupted yields Ok(false)
\* under the signer's key and the signed message; and no call of any
\* operation returns SignatureVerificationFailed.
C4_InvalidIsFalse ==
    /\ (Returned("verify_transaction")
            /\ Len(ret[1].pk) = DILITHIUM2_PK_SIZE
            /\ Len(ret[1].sig) = DILITHIUM2_SIG_SIZE
            /\ ret[1].parsed = <<TRUE, TRUE>>) =>
            /\ ret[1].result.tag = "Ok"
            /\ ret[1].result =
                 OkBool(verify_detached_signature(ret[1].sig, ret[1].msg, ret[1].pk))
            /\ (held # <<>>
                    /\ ret[1].pk = held[1].pk
                    /\ ret[1].msg = held[1].msg
                    /\ \E at \in CorruptAt : ret[1].sig = Corrupt(held[1].sig, at)) =>
                    ret[1].result = OkBool(FALSE)
    /\ ret # <<>> => ret[1].result.err # "SignatureVerificationFailed"

C4_Witness ==
    /\ VerifiedUnderSigner
    /\ ret[1].msg = held[1].msg
    /\ ret[1].sig = Corrupt(held[1].sig, 1)
    /\ ret[1].parsed = <<TRUE, TRUE>>
    /\ ret[1].result = OkBool(FALSE)

\* C5: a signature obtained for one message, verified under the signer's
\* public key against a different message, yields Ok(false).
C5_WrongMessage ==
    (VerifiedUnderSigner /\ ret[1].sig = held[1].sig
        /\ ret[1].msg # held[1].msg) =>
        ret[1].result = OkBool(FALSE)

C5_Witness ==
    /\ VerifiedUnderSigner
    /\ ret[1].sig = held[1].sig
    /\ held[1].msg = MsgAlice
    /\ ret[1].msg = MsgBob
    /\ ret[1].result = OkBool(FALSE)

\* The transactions equal to tx in to, value and data and with another nonce.
OtherNonce(tx) ==
    {t \in FlowTxs : t.to = tx.to /\ t.value = tx.value /\ t.data = tx.data
                        /\ t.nonce # tx.nonce}

\* C6: the signature of a transaction's encoding verifies as Ok(true)
\* against that encoding and as Ok(false) against the encoding of a
\* transaction that differs from it in the nonce only.
C6_NonceReplay ==
    \A tx \in FlowTxs :
        (VerifiedUnderSigner /\ ret[1].sig = held[1].sig
            /\ held[1].msg = encode(tx)) =>
            /\ ret[1].msg = encode(tx) => ret[1].result = OkBool(TRUE)
            /\ \A t \in OtherNonce(tx) :
                    ret[1].msg = encode(t) => ret[1].result = OkBool(FALSE)

C6_Witness ==
    /\ VerifiedUnderSigner
    /\ ret[1].sig = held[1].sig
    /\ held[1].msg = encode(FlowTx(FlowNonceSeq[1]))
    /\ ret[1].msg = encode(FlowTx(FlowNonceSeq[2]))
    /\ ret[1].result = OkBool(FALSE)

\* Byte k (1 = first) of the big-endian form of the number x.
BeByte(x, k) ==
    LET digit == x[(k + 1) \div 2]
    IN  IF k % 2 = 1 THEN digit \div 256 ELSE digit % 256

\* e is laid out as to || value (16 bytes, big-endian) || data || nonce
\* (8 bytes, big-endian), nothing else.
WireFormat(tx, e) ==
    LET to == as_bytes(tx.to)
        data == as_bytes(tx.data)
        a == Len(to)
        b == a + U128_BYTES
        c == b + Len(data)
    IN  /\ Len(e) = c + U64_BYTES
        /\ \A i \in 1..Len(e) :
              e[i] = IF i <= a THEN to[i]
                     ELSE IF i <= b THEN BeByte(tx.value, i - a)
                     ELSE IF i <= c THEN data[i - b]
                     ELSE BeByte(tx.nonce, i - c)

\* C7: the encoding of a transaction is the bytes of to, then value as 16
\* big-endian bytes, then the bytes of data, then nonce as 8 big-endian
\* bytes, with nothing between them, so its length is len(to) + 16 +
\* len(data) + 8; equal transactions have equal encodings.
C7_WireFormat ==
    /\ encA # <<>> => WireFormat(txA, encA)
    /\ encB # <<>> => WireFormat(txB, encB)
    /\ (encA # <<>> /\ encB # <<>> /\ txA = txB) => encA = encB

C7_Witness ==
    /\ encA # <<>>
    /\ txA.to # <<>>
    /\ txA.data # <<>>
    /\ txA.value = FlowValue

\* C8 as claimed: two transactions that differ in a field have different
\* encodings.
C8_Injective ==
    (encA # <<>> /\ encB # <<>> /\ txA # txB) => encA # encB

\* C8 amended: two transactions that differ in a field and whose to fields
\* have the same length in bytes have different encodings.
C8_InjectiveSameToLen ==
    (encA # <<>> /\ encB # <<>> /\ txA # txB
        /\ Len(as_bytes(txA.to)) = Len(as_bytes(txB.to))) => encA # encB

\* Two encoded transactions whose to fields differ and are equally long in
\* bytes, whose data fields differ and are equally long in bytes, and whose
\* value and nonce are equal.
C8_Witness ==
    /\ encA # <<>>
    /\ encB # <<>>
    /\ txA.to # txB.to
    /\ Len(as_bytes(txA.to)) = Len(as_bytes(txB.to))
    /\ txA.data # txB.data
    /\ Len(as_bytes(txA.data)) = Len(as_bytes(txB.data))
    /\ txA.value = txB.value
    /\ txA.nonce = txB.nonce
    /\ encA # encB

\* C9: no step changes the keys of a wallet that is alive before and after
\* it, only a drop removes a wallet, and public_key returns the wallet's
\* stored public key, of 1312 bytes.
C9_Immutable ==
    /\ [][\A w \in DOMAIN wallets :
            IF w \in DOMAIN wallets' THEN wallets'[w] = wallets[w]
            ELSE Drop(w)]_vars
    /\ [](Returned("public_key") =>
            /\ ret[1].result.bytes = wallets[ret[1].wallet].pk
            /\ Len(ret[1].result.bytes) = DILITHIUM2_PK_SIZE)

\* The first wallet and a clone of it are alive, a signature of theirs is
\* held, and public_key of the first has just returned.
C9_Witness ==
    /\ Returned("public_key")
    /\ ret[1].wallet = 1
    /\ DOMAIN wallets = WalletIds
    /\ wallets[2] = wallets[1]
    /\ held # <<>>
    /\ held[1].pk = wallets[1].pk

\* The XOR over the chunks i >= from of byte j of the chunk, each byte
\* first increased by add * i modulo 256.
RECURSIVE XorColumn(_, _, _, _)
XorColumn(pk, j, from, add) ==
    IF 32 * from + j > Len(pk) THEN 0
    ELSE XorTable[(pk[32 * from + j] + add * from) % 256]
                 [XorColumn(pk, j, from + 1, add)]

\* C10 as claimed: byte j of the hash is the XOR over the 32-byte chunks of
\* byte j of the chunk.
C10_XorFold ==
    Returned("public_key_hash") =>
        /\ Len(ret[1].result.bytes) = 32
        /\ \A j \in 1..32 :
              ret[1].result.bytes[j] = XorColumn(wallets[ret[1].wallet].pk, j, 0, 0)

\* C10 amended: byte j of the hash is the XOR over the 32-byte chunks, chunk
\* i counted from 0, of (byte j of the chunk + i) mod 256; the hash has 32
\* bytes.
C10_XorFoldIndexed ==
    Returned("public_key_hash") =>
        /\ Len(ret[1].result.bytes) = 32
        /\ \A j \in 1..32 :
              ret[1].result.bytes[j] = XorColumn(wallets[ret[1].wallet].pk, j, 0, 1)

C10_Witness ==
    /\ Returned("public_key_hash")
    /\ Len(wallets[ret[1].wallet].pk) = DILITHIUM2_PK_SIZE
    /\ ret[1].result.bytes # [j \in 1..32 |-> 0]

====
